---- MODULE Spec2Model ----
(***************************************************************************)
(* Gas estimation and fee adjustment of the Cosmos chain endpoint          *)
(* (crates/relayer/src/chain/cosmos/estimate.rs).                          *)
(*                                                                         *)
(* Each call of estimate_tx_fees is a process that runs through the        *)
(* synchronous stretches of the async function: signing, the resumption    *)
(* after send_tx_simulate (the match of estimate_gas_with_tx), the ceiling *)
(* check of estimate_fee_with_tx, and the resumption after                 *)
(* gas_amount_to_fee.  The answers of the collaborators (signer,           *)
(* simulator, price lookup) are inputs chosen when the step runs.          *)
(***************************************************************************)
EXTENDS Integers, Sequences, FiniteSets, TLC

\* ------------------------------------------------------------------ bounds
\* Gas amounts (default_gas, max_gas, gas_used) range over 0..MaxGas.
MaxGas == 3
\* Live gas prices answered by the chain range over 1..MaxPrice.
MaxPrice == 2

\* ------------------------------------------------------------ input domains
\* The concurrent calls of estimate_tx_fees.
Calls == {"call_a", "call_b"}

GasAmounts == 0 .. MaxGas

\* The account of a call: only its address is used, to tag telemetry.
account(c) == [address |-> c]

\* The four conditions on a gRPC status that make a simulation failure
\* recoverable.
RecoverableConditions ==
    { "client_state_height_too_low",
      "account_sequence_mismatch_that_can_be_ignored",
      "out_of_order_packet_sequence_error",
      "empty_tx_error" }

StatusCodes == { "InvalidArgument", "Unknown" }

\* ErrorDetail::GrpcStatus(detail): a status code and the conditions the
\* status matches (none, one or several of the four).
GrpcStatusDetails ==
    { [kind |-> "GrpcStatus", code |-> k, matches |-> m] :
        k \in StatusCodes, m \in SUBSET RecoverableConditions }

\* The other ErrorDetail variants send_tx_simulate can yield.
OtherSimulateDetails ==
    { [kind |-> "GrpcTransport"], [kind |-> "GrpcResponseTimeout"] }

SimulateErrors ==
    { [detail |-> d] : d \in GrpcStatusDetails \cup OtherSimulateDetails }

\* The errors sign_tx can yield.
SignErrors == { [detail |-> [kind |-> "KeyBase"]],
                [detail |-> [kind |-> "ProtobufEncode"]] }

\* Result<Option<GasInfo>, Error> after `.map(|sr| sr.gas_info)`.
SimulatedGasValues ==
    { [tag |-> "Ok", some |-> TRUE, gas_used |-> g] : g \in GasAmounts }
    \cup { [tag |-> "Ok", some |-> FALSE] }
    \cup { [tag |-> "Err", err |-> e] : e \in SimulateErrors }

Unset == [tag |-> "Unset"]

\* A local that has been assigned.
Known(n) == [tag |-> "Known", n |-> n]

\* ------------------------------------------------------------------- types
Simulated(amount) == [variant |-> "Simulated", amount |-> amount]
Default(amount) == [variant |-> "Default", amount |-> amount]

Ok(v) == [tag |-> "Ok", val |-> v]
Err(e) == [tag |-> "Err", err |-> e]

get_amount(self) == self.amount

tx_simulate_gas_estimate_exceeded(chain_id, estimated, max) ==
    [detail |-> [kind |-> "TxSimulateGasEstimateExceeded",
                 chain_id |-> chain_id, estimated |-> estimated, max |-> max]]

\* -------------------------------------------------------------- classifier
is_client_state_height_too_low(detail) ==
    "client_state_height_too_low" \in detail.matches

is_account_sequence_mismatch_that_can_be_ignored(detail) ==
    "account_sequence_mismatch_that_can_be_ignored" \in detail.matches

is_out_of_order_packet_sequence_error(detail) ==
    "out_of_order_packet_sequence_error" \in detail.matches

is_empty_tx_error(detail) ==
    "empty_tx_error" \in detail.matches

\* Variant: every gRPC status failure is taken as recoverable.
can_recover_from_simulation_failure_any_status(e) ==
    e.detail.kind = "GrpcStatus"

\* Variant: the catch-all arm of the match answers true.
can_recover_from_simulation_failure_deny_list(e) ==
    IF e.detail.kind = "GrpcStatus"
    THEN \/ is_client_state_height_too_low(e.detail)
         \/ is_account_sequence_mismatch_that_can_be_ignored(e.detail)
         \/ is_out_of_order_packet_sequence_error(e.detail)
         \/ is_empty_tx_error(e.detail)
    ELSE TRUE

can_recover_from_simulation_failure(e) ==
    IF e.detail.kind = "GrpcStatus"
    THEN \/ is_client_state_height_too_low(e.detail)
         \/ is_account_sequence_mismatch_that_can_be_ignored(e.detail)
         \/ is_out_of_order_packet_sequence_error(e.detail)
         \/ is_empty_tx_error(e.detail)
    ELSE FALSE

get_error_text(e) ==
    IF e.detail.kind = "GrpcStatus" THEN e.detail.code ELSE e.detail.kind

\* telemetry!(simulate_errors, address, recoverable, text)
simulate_errors_event(address, recoverable, text) ==
    [address |-> address, recoverable |-> recoverable, text |-> text]

\* ----------------------------------------------------- estimate_gas_with_tx
\* Each arm of the match yields the returned value and the telemetry
\* events the arm emits.
\* Variant: the reported figure is returned under the Default variant.
arm_some_as_default(gas_info) ==
    [ret |-> Ok(Default(gas_info.gas_used)), events |-> << >>]

arm_some(gas_info) ==
    [ret |-> Ok(Simulated(gas_info.gas_used)), events |-> << >>]

\* Variant: the fallback reads max_gas instead of default_gas.
arm_none_max_gas(gas_config) ==
    [ret |-> Ok(Default(gas_config.max_gas)), events |-> << >>]

arm_none(gas_config) ==
    [ret |-> Ok(Default(gas_config.default_gas)), events |-> << >>]

\* Variant: the recoverable arm reports the failure as not recoverable.
arm_recoverable_flagged_fatal(gas_config, e, acct) ==
    [ret |-> Ok(Default(gas_config.default_gas)),
     events |-> << simulate_errors_event(acct.address, FALSE, get_error_text(e)) >>]

arm_recoverable(gas_config, e, acct) ==
    [ret |-> Ok(Default(gas_config.default_gas)),
     events |-> << simulate_errors_event(acct.address, TRUE, get_error_text(e)) >>]

\* Variant: the fatal arm returns an error rebuilt from the error text.
arm_fatal_rewrapped(e, acct) ==
    [ret |-> Err([detail |-> [kind |-> "Other", text |-> get_error_text(e)]]),
     events |-> << simulate_errors_event(acct.address, FALSE, get_error_text(e)) >>]

arm_fatal(e, acct) ==
    [ret |-> Err(e),
     events |-> << simulate_errors_event(acct.address, FALSE, get_error_text(e)) >>]

\* Variant: a reported figure of zero is treated like an absent one.
estimate_gas_with_tx_zero_as_absent(gas_config, simulated_gas, acct) ==
    IF simulated_gas.tag = "Ok"
    THEN IF simulated_gas.some /\ simulated_gas.gas_used > 0
         THEN arm_some(simulated_gas)
         ELSE arm_none(gas_config)
    ELSE IF can_recover_from_simulation_failure(simulated_gas.err)
         THEN arm_recoverable(gas_config, simulated_gas.err, acct)
         ELSE arm_fatal(simulated_gas.err, acct)

\* Variant: a successful simulation without a figure is reported to
\* telemetry as a recoverable failure.
estimate_gas_with_tx_reporting_fallback(gas_config, simulated_gas, acct) ==
    IF simulated_gas.tag = "Ok"
    THEN IF simulated_gas.some
         THEN arm_some(simulated_gas)
         ELSE [ret |-> arm_none(gas_config).ret,
               events |-> << simulate_errors_event(acct.address, TRUE, "no gas info") >>]
    ELSE IF can_recover_from_simulation_failure(simulated_gas.err)
         THEN arm_recoverable(gas_config, simulated_gas.err, acct)
         ELSE arm_fatal(simulated_gas.err, acct)

estimate_gas_with_tx(gas_config, simulated_gas, acct) ==
    IF simulated_gas.tag = "Ok"
    THEN IF simulated_gas.some
         THEN arm_some(simulated_gas)
         ELSE arm_none(gas_config)
    ELSE IF can_recover_from_simulation_failure(simulated_gas.err)
         THEN arm_recoverable(gas_config, simulated_gas.err, acct)
         ELSE arm_fatal(simulated_gas.err, acct)

\* ----------------------------------------------------- estimate_fee_with_tx
\* Variant: the ceiling is compared one unit too high.
gas_estimate_exceeded_off_by_one(gas_config, estimated_gas_amount) ==
    estimated_gas_amount > gas_config.max_gas + 1

\* Variant: an amount equal to the ceiling is refused.
gas_estimate_exceeded_inclusive(gas_config, estimated_gas_amount) ==
    estimated_gas_amount >= gas_config.max_gas

gas_estimate_exceeded(gas_config, estimated_gas_amount) ==
    estimated_gas_amount > gas_config.max_gas

\* The fee calculator: a Fee, never an error.  When the live price cannot
\* be fetched the configured price is used.
gas_amount_to_fee(gas_config, gas_amount, price_query) ==
    LET price == IF price_query.tag = "Ok" THEN price_query.price
                 ELSE gas_config.gas_price
    IN  [gas_limit |-> gas_amount, amount |-> gas_amount * price]

PriceQueries ==
    { [tag |-> "Ok", price |-> p] : p \in 1 .. MaxPrice }
    \cup { [tag |-> "Err"] }

\* ------------------------------------------------------------------- state
VARIABLES
    config,               \* the TxConfig shared by the calls
    pc,                   \* where each call stands
    signed_tx,            \* what sign_tx returned to the call
    simulated_gas,        \* what send_tx_simulate returned, mapped to gas_info
    estimated_gas,        \* what estimate_gas_with_tx returned
    estimated_gas_amount, \* the local of estimate_fee_with_tx
    price_query,          \* outcome of the price lookup in gas_amount_to_fee
    adjusted_fee,         \* what gas_amount_to_fee returned
    result,               \* what estimate_tx_fees returned
    simulate_errors,      \* the telemetry sink: events in emission order
    invoked,              \* the collaborators each call invoked, in order
    telemetry_outcome,    \* whether the sink recorded the event of the call
    cancelled_at          \* the await at which the caller dropped the call

vars == << config, pc, signed_tx, simulated_gas, estimated_gas,
           estimated_gas_amount, price_query, adjusted_fee, result,
           simulate_errors, invoked, telemetry_outcome, cancelled_at >>

GasConfigs ==
    { [default_gas |-> d, max_gas |-> m, gas_price |-> 1,
       max_fee |-> [gas_limit |-> m, amount |-> m * MaxPrice]] :
        d \in GasAmounts, m \in GasAmounts }

Init ==
    /\ config \in { [chain_id |-> "chain-0", gas_config |-> g] : g \in GasConfigs }
    /\ pc = [c \in Calls |-> "sign_tx"]
    /\ signed_tx = [c \in Calls |-> Unset]
    /\ simulated_gas = [c \in Calls |-> Unset]
    /\ estimated_gas = [c \in Calls |-> Unset]
    /\ estimated_gas_amount = [c \in Calls |-> Unset]
    /\ price_query = [c \in Calls |-> Unset]
    /\ adjusted_fee = [c \in Calls |-> Unset]
    /\ result = [c \in Calls |-> Unset]
    /\ simulate_errors = << >>
    /\ invoked = [c \in Calls |-> << >>]
    /\ telemetry_outcome = [c \in Calls |-> "none"]
    /\ cancelled_at = [c \in Calls |-> "none"]

\* What becomes of the events a call hands to the telemetry sink: the sink
\* records them or fails to; the macro is a statement, nothing comes back.
SinkOutcomes == { "recorded", "failed" }

sink_outcome(c, events, outcome) ==
    IF events = << >> THEN telemetry_outcome
    ELSE [telemetry_outcome EXCEPT ![c] = outcome]

\* The outcomes of sign_tx: a transaction signed under max_fee, or an error.
SignOutcomes ==
    { Ok([fee |-> config.gas_config.max_fee]) } \cup { Err(e) : e \in SignErrors }

\* Variant: the result of sign_tx is not checked and the call goes on to
\* the simulation.
SignTx_unchecked(c) ==
    /\ pc[c] = "sign_tx"
    /\ \E s \in SignOutcomes :
         signed_tx' = [signed_tx EXCEPT ![c] = s]
    /\ pc' = [pc EXCEPT ![c] = "send_tx_simulate"]
    /\ invoked' = [invoked EXCEPT ![c] = Append(@, "sign_tx")]
    /\ UNCHANGED << config, cancelled_at, telemetry_outcome,
                    simulated_gas, estimated_gas, estimated_gas_amount,
                    price_query, adjusted_fee, result, simulate_errors >>

\* Variant: the start of the simulation is reported to telemetry before
\* send_tx_simulate is awaited.
SignTx_announcing(c) ==
    /\ pc[c] = "sign_tx"
    /\ \E s \in SignOutcomes :
         /\ signed_tx' = [signed_tx EXCEPT ![c] = s]
         /\ IF s.tag = "Ok"
            THEN /\ pc' = [pc EXCEPT ![c] = "send_tx_simulate"]
                 /\ result' = result
                 /\ simulate_errors' = Append(simulate_errors,
                        simulate_errors_event(account(c).address, FALSE, "simulating"))
            ELSE /\ pc' = [pc EXCEPT ![c] = "done"]
                 /\ result' = [result EXCEPT ![c] = Err(s.err)]
                 /\ simulate_errors' = simulate_errors
    /\ invoked' = [invoked EXCEPT ![c] = Append(@, "sign_tx")]
    /\ UNCHANGED << config, cancelled_at, telemetry_outcome,
                    simulated_gas, estimated_gas, estimated_gas_amount,
                    price_query, adjusted_fee >>

\* estimate_tx_fees up to the call of estimate_fee_with_tx: sign under
\* max_fee; `?` returns a signing error to the caller.
SignTx(c) ==
    /\ pc[c] = "sign_tx"
    /\ \E s \in SignOutcomes :
         /\ signed_tx' = [signed_tx EXCEPT ![c] = s]
         /\ IF s.tag = "Ok"
            THEN /\ pc' = [pc EXCEPT ![c] = "send_tx_simulate"]
                 /\ result' = result
            ELSE /\ pc' = [pc EXCEPT ![c] = "done"]
                 /\ result' = [result EXCEPT ![c] = Err(s.err)]
    /\ invoked' = [invoked EXCEPT ![c] = Append(@, "sign_tx")]
    /\ UNCHANGED << config, cancelled_at, telemetry_outcome,
                    simulated_gas, estimated_gas, estimated_gas_amount,
                    price_query, adjusted_fee, simulate_errors >>

\* Variant: a fatal simulation failure is retried instead of returned.
EstimateGasWithTx_retrying(c) ==
    /\ pc[c] = "send_tx_simulate"
    /\ \E sg \in SimulatedGasValues :
         LET r == estimate_gas_with_tx(config.gas_config, sg, account(c)) IN
         /\ simulated_gas' = [simulated_gas EXCEPT ![c] = sg]
         /\ estimated_gas' = [estimated_gas EXCEPT ![c] = r.ret]
         /\ simulate_errors' = simulate_errors \o r.events
         /\ telemetry_outcome' = sink_outcome(c, r.events, "recorded")
         /\ invoked' = [invoked EXCEPT ![c] =
                @ \o << "send_tx_simulate" >>
                  \o [i \in 1 .. Len(r.events) |-> "telemetry"]]
         /\ IF r.ret.tag = "Ok"
            THEN pc' = [pc EXCEPT ![c] = "ceiling_check"]
            ELSE pc' = pc
    /\ UNCHANGED << config, cancelled_at,
                    signed_tx, estimated_gas_amount, price_query,
                    adjusted_fee, result >>

\* estimate_gas_with_tx: the simulator answers, the match resolves the gas
\* and emits telemetry; `?` in estimate_fee_with_tx and estimate_tx_fees
\* returns a fatal error to the caller.
EstimateGasWithTx(c) ==
    /\ pc[c] = "send_tx_simulate"
    /\ \E sg \in SimulatedGasValues :
         LET r == estimate_gas_with_tx(config.gas_config, sg, account(c)) IN
         /\ simulated_gas' = [simulated_gas EXCEPT ![c] = sg]
         /\ estimated_gas' = [estimated_gas EXCEPT ![c] = r.ret]
         /\ simulate_errors' = simulate_errors \o r.events
         /\ telemetry_outcome' = sink_outcome(c, r.events, "recorded")
         /\ invoked' = [invoked EXCEPT ![c] =
                @ \o << "send_tx_simulate" >>
                  \o [i \in 1 .. Len(r.events) |-> "telemetry"]]
         /\ IF r.ret.tag = "Ok"
            THEN /\ pc' = [pc EXCEPT ![c] = "ceiling_check"]
                 /\ result' = result
            ELSE /\ pc' = [pc EXCEPT ![c] = "done"]
                 /\ result' = [result EXCEPT ![c] = Err(r.ret.err)]
    /\ UNCHANGED << config, cancelled_at,
                    signed_tx, estimated_gas_amount, price_query,
                    adjusted_fee >>

\* Variant: the estimate is kept in a slot shared by the calls, and the
\* ceiling check reads whatever estimate is in it.
CeilingCheck_shared_estimate(c) ==
    /\ pc[c] = "ceiling_check"
    /\ \E d \in Calls :
         /\ estimated_gas[d].tag = "Ok"
         /\ LET amount == get_amount(estimated_gas[d].val) IN
            /\ estimated_gas_amount' = [estimated_gas_amount EXCEPT ![c] = Known(amount)]
            /\ IF gas_estimate_exceeded(config.gas_config, amount)
               THEN /\ pc' = [pc EXCEPT ![c] = "done"]
                    /\ result' = [result EXCEPT ![c] =
                           Err(tx_simulate_gas_estimate_exceeded(
                                 config.chain_id, amount, config.gas_config.max_gas))]
                    /\ invoked' = invoked
               ELSE /\ pc' = [pc EXCEPT ![c] = "gas_amount_to_fee"]
                    /\ result' = result
                    /\ invoked' = [invoked EXCEPT ![c] = Append(@, "gas_amount_to_fee")]
    /\ UNCHANGED << config, cancelled_at, telemetry_outcome,
                    signed_tx, simulated_gas, estimated_gas,
                    price_query, adjusted_fee, simulate_errors >>

\* Variant: only a simulated amount is held against the ceiling, the
\* configured default is let through.
CeilingCheck_trusting_default(c) ==
    /\ pc[c] = "ceiling_check"
    /\ LET amount == get_amount(estimated_gas[c].val) IN
       /\ estimated_gas_amount' = [estimated_gas_amount EXCEPT ![c] = Known(amount)]
       /\ IF /\ estimated_gas[c].val.variant = "Simulated"
             /\ gas_estimate_exceeded(config.gas_config, amount)
          THEN /\ pc' = [pc EXCEPT ![c] = "done"]
               /\ result' = [result EXCEPT ![c] =
                      Err(tx_simulate_gas_estimate_exceeded(
                            config.chain_id, amount, config.gas_config.max_gas))]
               /\ invoked' = invoked
          ELSE /\ pc' = [pc EXCEPT ![c] = "gas_amount_to_fee"]
               /\ result' = result
               /\ invoked' = [invoked EXCEPT ![c] = Append(@, "gas_amount_to_fee")]
    /\ UNCHANGED << config, cancelled_at, telemetry_outcome,
                    signed_tx, simulated_gas, estimated_gas,
                    price_query, adjusted_fee, simulate_errors >>

\* Variant: the outcome of the telemetry call is checked, and a failure of
\* the sink is returned to the caller in place of the estimate.
EstimateGasWithTxSink_checked(c) ==
    /\ pc[c] = "send_tx_simulate"
    /\ \E sg \in SimulatedGasValues : \E out \in SinkOutcomes :
         LET r == estimate_gas_with_tx(config.gas_config, sg, account(c))
             failed == r.events # << >> /\ out = "failed"
             ret == IF failed THEN Err([detail |-> [kind |-> "Telemetry"]]) ELSE r.ret
         IN
         /\ simulated_gas' = [simulated_gas EXCEPT ![c] = sg]
         /\ estimated_gas' = [estimated_gas EXCEPT ![c] = ret]
         /\ simulate_errors' = simulate_errors \o r.events
         /\ telemetry_outcome' = sink_outcome(c, r.events, out)
         /\ invoked' = [invoked EXCEPT ![c] =
                @ \o << "send_tx_simulate" >>
                  \o [i \in 1 .. Len(r.events) |-> "telemetry"]]
         /\ IF ret.tag = "Ok"
            THEN /\ pc' = [pc EXCEPT ![c] = "ceiling_check"]
                 /\ result' = result
            ELSE /\ pc' = [pc EXCEPT ![c] = "done"]
                 /\ result' = [result EXCEPT ![c] = Err(ret.err)]
    /\ UNCHANGED << config, cancelled_at,
                    signed_tx, estimated_gas_amount, price_query,
                    adjusted_fee >>

\* estimate_gas_with_tx with a telemetry sink that may fail: the same step
\* as EstimateGasWithTx, the sink recording the event or not.
EstimateGasWithTxSink(c) ==
    /\ pc[c] = "send_tx_simulate"
    /\ \E sg \in SimulatedGasValues : \E out \in SinkOutcomes :
         LET r == estimate_gas_with_tx(config.gas_config, sg, account(c)) IN
         /\ simulated_gas' = [simulated_gas EXCEPT ![c] = sg]
         /\ estimated_gas' = [estimated_gas EXCEPT ![c] = r.ret]
         /\ simulate_errors' = simulate_errors \o r.events
         /\ telemetry_outcome' = sink_outcome(c, r.events, out)
         /\ invoked' = [invoked EXCEPT ![c] =
                @ \o << "send_tx_simulate" >>
                  \o [i \in 1 .. Len(r.events) |-> "telemetry"]]
         /\ IF r.ret.tag = "Ok"
            THEN /\ pc' = [pc EXCEPT ![c] = "ceiling_check"]
                 /\ result' = result
            ELSE /\ pc' = [pc EXCEPT ![c] = "done"]
                 /\ result' = [result EXCEPT ![c] = Err(r.ret.err)]
    /\ UNCHANGED << config, cancelled_at,
                    signed_tx, estimated_gas_amount, price_query,
                    adjusted_fee >>

\* estimate_fee_with_tx after the estimate: read the amount, refuse it when
\* it is above max_gas, otherwise call the fee calculator.
CeilingCheck(c) ==
    /\ pc[c] = "ceiling_check"
    /\ LET amount == get_amount(estimated_gas[c].val) IN
       /\ estimated_gas_amount' = [estimated_gas_amount EXCEPT ![c] = Known(amount)]
       /\ IF gas_estimate_exceeded(config.gas_config, amount)
          THEN /\ pc' = [pc EXCEPT ![c] = "done"]
               /\ result' = [result EXCEPT ![c] =
                      Err(tx_simulate_gas_estimate_exceeded(
                            config.chain_id, amount, config.gas_config.max_gas))]
               /\ invoked' = invoked
          ELSE /\ pc' = [pc EXCEPT ![c] = "gas_amount_to_fee"]
               /\ result' = result
               /\ invoked' = [invoked EXCEPT ![c] = Append(@, "gas_amount_to_fee")]
    /\ UNCHANGED << config, cancelled_at, telemetry_outcome,
                    signed_tx, simulated_gas, estimated_gas,
                    price_query, adjusted_fee, simulate_errors >>

\* Variant: the fee calculator returns a Result and `?` returns a failed
\* price lookup to the caller.
GasAmountToFee_fallible(c) ==
    /\ pc[c] = "gas_amount_to_fee"
    /\ \E q \in PriceQueries :
         LET fee == gas_amount_to_fee(config.gas_config, estimated_gas_amount[c].n, q) IN
         /\ price_query' = [price_query EXCEPT ![c] = q]
         /\ IF q.tag = "Ok"
            THEN /\ adjusted_fee' = [adjusted_fee EXCEPT ![c] = fee]
                 /\ result' = [result EXCEPT ![c] =
                        Ok([fee |-> fee, gas |-> estimated_gas[c].val])]
            ELSE /\ adjusted_fee' = adjusted_fee
                 /\ result' = [result EXCEPT ![c] =
                        Err([detail |-> [kind |-> "GasPriceQuery"]])]
    /\ pc' = [pc EXCEPT ![c] = "done"]
    /\ UNCHANGED << config, cancelled_at, telemetry_outcome,
                    signed_tx, simulated_gas, estimated_gas,
                    estimated_gas_amount, simulate_errors, invoked >>

\* The fee calculator answers; estimate_fee_with_tx returns the fee paired
\* with the estimate, and estimate_tx_fees hands the pair to the caller.
GasAmountToFee(c) ==
    /\ pc[c] = "gas_amount_to_fee"
    /\ \E q \in PriceQueries :
         LET fee == gas_amount_to_fee(config.gas_config, estimated_gas_amount[c].n, q) IN
         /\ price_query' = [price_query EXCEPT ![c] = q]
         /\ adjusted_fee' = [adjusted_fee EXCEPT ![c] = fee]
         /\ result' = [result EXCEPT ![c] =
                Ok([fee |-> fee, gas |-> estimated_gas[c].val])]
    /\ pc' = [pc EXCEPT ![c] = "done"]
    /\ UNCHANGED << config, cancelled_at, telemetry_outcome,
                    signed_tx, simulated_gas, estimated_gas,
                    estimated_gas_amount, simulate_errors, invoked >>

Next ==
    \E c \in Calls :
        \/ SignTx(c)
        \/ EstimateGasWithTx(c)
        \/ CeilingCheck(c)
        \/ GasAmountToFee(c)

Spec == Init /\ [][Next]_vars

\* The two awaits of a call, where the caller can drop it.
SuspensionPoints == { "send_tx_simulate", "gas_amount_to_fee" }

\* The caller drops the future of a call that is suspended at an await:
\* the call takes no further step.
Cancel(c) ==
    /\ pc[c] \in SuspensionPoints
    /\ cancelled_at' = [cancelled_at EXCEPT ![c] = pc[c]]
    /\ pc' = [pc EXCEPT ![c] = "cancelled"]
    /\ UNCHANGED << config, signed_tx, simulated_gas, estimated_gas,
                    estimated_gas_amount, price_query, adjusted_fee, result,
                    simulate_errors, invoked, telemetry_outcome >>

\* The calls with a caller that may cancel them.
NextCancel ==
    \E c \in Calls :
        \/ SignTx(c)
        \/ EstimateGasWithTx(c)
        \/ CeilingCheck(c)
        \/ GasAmountToFee(c)
        \/ Cancel(c)

SpecCancel == Init /\ [][NextCancel]_vars

\* The calls with a telemetry sink that may fail.
NextSink ==
    \E c \in Calls :
        \/ SignTx(c)
        \/ EstimateGasWithTxSink(c)
        \/ CeilingCheck(c)
        \/ GasAmountToFee(c)

SpecSink == Init /\ [][NextSink]_vars

\* ------------------------------------------------------------- observations
\* The telemetry events a call emitted (events carry the account address).
EventsOf(c) ==
    LET Mine(ev) == ev.address = account(c).address
    IN  SelectSeq(simulate_errors, Mine)

Invoked(c, name) == \E i \in 1 .. Len(invoked[c]) : invoked[c][i] = name

SimulationFailed(c) == simulated_gas[c].tag = "Err"

\* An error whose detail is a gRPC status matching at least one of the four
\* recoverable conditions.
MatchesOneOfFour(e) ==
    /\ e.detail.kind = "GrpcStatus"
    /\ e.detail.matches \cap RecoverableConditions # {}

\* The resolved amount of a call whose estimate succeeded.
Resolved(c) == estimated_gas[c].tag = "Ok"

\* C1: whenever the gas resolved by estimate_gas_with_tx (Simulated or
\* Default) is strictly greater than max_gas, the fee calculator is never
\* called and the call returns the ceiling-exceeded error carrying the chain
\* id, that amount and max_gas.
C1_CeilingExceededNoFee ==
    \A c \in Calls :
        (Resolved(c) /\ estimated_gas[c].val.amount > config.gas_config.max_gas)
        => /\ ~Invoked(c, "gas_amount_to_fee")
           /\ adjusted_fee[c] = Unset
           /\ pc[c] \in {"ceiling_check", "done"}
           /\ pc[c] = "done" =>
                result[c] = Err([detail |->
                    [kind |-> "TxSimulateGasEstimateExceeded",
                     chain_id |-> config.chain_id,
                     estimated |-> estimated_gas[c].val.amount,
                     max |-> config.gas_config.max_gas]])

C1_Witness ==
    \E c \in Calls :
        /\ pc[c] = "done"
        /\ Resolved(c)
        /\ estimated_gas[c].val.variant = "Simulated"
        /\ estimated_gas[c].val.amount > config.gas_config.max_gas
        /\ result[c].tag = "Err"

\* C2: for each of the four recoverable conditions, a simulation failure
\* matching it resolves to Ok(Default(default_gas)), the simulation error is
\* not what the caller gets, and the call emits exactly one telemetry event,
\* flagged recoverable.
C2_RecoverableFallsBack ==
    \A c \in Calls : \A k \in RecoverableConditions :
        ( /\ SimulationFailed(c)
          /\ simulated_gas[c].err.detail.kind = "GrpcStatus"
          /\ k \in simulated_gas[c].err.detail.matches )
        => /\ estimated_gas[c] = Ok(Default(config.gas_config.default_gas))
           /\ result[c] # Err(simulated_gas[c].err)
           /\ Len(EventsOf(c)) = 1
           /\ EventsOf(c)[1].recoverable = TRUE
           /\ EventsOf(c)[1].address = account(c).address

C2_Witness ==
    \E c \in Calls :
        /\ SimulationFailed(c)
        /\ simulated_gas[c].err.detail.kind = "GrpcStatus"
        /\ simulated_gas[c].err.detail.matches = {"empty_tx_error"}
        /\ pc[c] = "done"
        /\ result[c].tag = "Ok"
        /\ result[c].val.gas.variant = "Default"

\* C3: a simulation error the classifier does not classify as recoverable
\* is returned unchanged by estimate_gas_with_tx and by estimate_tx_fees,
\* no fee is produced, and the call emits exactly one telemetry event,
\* flagged not recoverable.
C3_FatalPropagates ==
    \A c \in Calls :
        ( /\ SimulationFailed(c)
          /\ ~can_recover_from_simulation_failure(simulated_gas[c].err) )
        => /\ estimated_gas[c] = Err(simulated_gas[c].err)
           /\ pc[c] = "done"
           /\ result[c] = Err(simulated_gas[c].err)
           /\ adjusted_fee[c] = Unset
           /\ ~Invoked(c, "gas_amount_to_fee")
           /\ Len(EventsOf(c)) = 1
           /\ EventsOf(c)[1].recoverable = FALSE

C3_Witness ==
    \E c \in Calls :
        /\ SimulationFailed(c)
        /\ simulated_gas[c].err.detail.kind = "GrpcStatus"
        /\ simulated_gas[c].err.detail.matches = {}
        /\ result[c] = Err(simulated_gas[c].err)

\* C4: the classifier is an allow-list: the verdict on the error a
\* simulation failed with (seen in the branch taken and in the telemetry
\* flag) is "recoverable" exactly when the error is a gRPC status matching
\* at least one of the four conditions; every other error, a non-status
\* kind or a status matching none, is fatal.  It yields a verdict for every
\* error.
C4_ClassifierAllowList ==
    /\ \A e \in SimulateErrors \cup SignErrors :
           can_recover_from_simulation_failure(e) \in BOOLEAN
    /\ \A c \in Calls :
           SimulationFailed(c)
           => /\ (estimated_gas[c].tag = "Ok") <=> MatchesOneOfFour(simulated_gas[c].err)
              /\ Len(EventsOf(c)) = 1
              /\ EventsOf(c)[1].recoverable <=> MatchesOneOfFour(simulated_gas[c].err)

C4_Witness ==
    \E c, d \in Calls :
        /\ SimulationFailed(c)
        /\ simulated_gas[c].err.detail.kind = "GrpcTransport"
        /\ estimated_gas[c].tag = "Err"
        /\ SimulationFailed(d)
        /\ simulated_gas[d].err.detail.kind = "GrpcStatus"
        /\ simulated_gas[d].err.detail.matches = {}
        /\ estimated_gas[d].tag = "Err"

\* C5: a successful simulation reporting gas_used = g resolves to
\* Simulated(g) and get_amount gives g; for either variant get_amount gives
\* the carried amount.
C5_SimulatedCarriesGasUsed ==
    \A c \in Calls :
        /\ (simulated_gas[c].tag = "Ok" /\ simulated_gas[c].some)
           => /\ estimated_gas[c] =
                    Ok([variant |-> "Simulated", amount |-> simulated_gas[c].gas_used])
              /\ estimated_gas_amount[c] # Unset
                    => estimated_gas_amount[c].n = simulated_gas[c].gas_used
        /\ estimated_gas_amount[c] # Unset
           => estimated_gas_amount[c].n = estimated_gas[c].val.amount

C5_Witness ==
    \E c, d \in Calls :
        /\ simulated_gas[c].tag = "Ok"
        /\ simulated_gas[c].some
        /\ simulated_gas[c].gas_used > 0
        /\ estimated_gas_amount[c] = Known(simulated_gas[c].gas_used)
        /\ Resolved(d)
        /\ estimated_gas[d].val.variant = "Default"
        /\ estimated_gas_amount[d] # Unset

\* C6: a successful simulation reporting no gas figure resolves to
\* Ok(Default(default_gas)), never to an error.
C6_NoFigureFallsBack ==
    \A c \in Calls :
        (simulated_gas[c].tag = "Ok" /\ ~simulated_gas[c].some)
        => estimated_gas[c] =
              Ok([variant |-> "Default", amount |-> config.gas_config.default_gas])

C6_Witness ==
    \E c \in Calls :
        /\ simulated_gas[c].tag = "Ok"
        /\ ~simulated_gas[c].some
        /\ estimated_gas[c].tag = "Ok"
        /\ config.gas_config.default_gas # config.gas_config.max_gas

\* C7: when the resolved amount is at most max_gas (equal included), the
\* call returns Ok((fee, gas)): fee is what the fee calculator returned for
\* exactly that amount and gas is the value estimate_gas_with_tx produced.
C7_FeeFromResolvedAmount ==
    \A c \in Calls :
        ( /\ pc[c] = "done"
          /\ Resolved(c)
          /\ estimated_gas[c].val.amount <= config.gas_config.max_gas )
        => /\ result[c].tag = "Ok"
           /\ result[c].val.gas = estimated_gas[c].val
           /\ result[c].val.fee = adjusted_fee[c]
           /\ result[c].val.fee.gas_limit = estimated_gas[c].val.amount
           /\ result[c].val.fee =
                 gas_amount_to_fee(config.gas_config,
                                   estimated_gas[c].val.amount, price_query[c])

C7_Witness ==
    \E c \in Calls :
        /\ pc[c] = "done"
        /\ Resolved(c)
        /\ estimated_gas[c].val.amount = config.gas_config.max_gas
        /\ result[c].tag = "Ok"
        /\ result[c].val.fee # config.gas_config.max_fee

\* C8: when sign_tx fails the call returns that error unchanged; the
\* simulator is not invoked, no telemetry event is emitted and the fee
\* calculator is not called.
C8_SigningFailurePropagates ==
    \A c \in Calls :
        signed_tx[c].tag = "Err"
        => /\ pc[c] = "done"
           /\ result[c] = Err(signed_tx[c].err)
           /\ invoked[c] = << "sign_tx" >>
           /\ simulated_gas[c] = Unset
           /\ EventsOf(c) = << >>
           /\ adjusted_fee[c] = Unset

C8_Witness ==
    \E c \in Calls :
        /\ signed_tx[c].tag = "Err"
        /\ result[c].tag = "Err"

\* C9: a call emits a telemetry event exactly when its simulation failed:
\* one event in the recoverable and in the fatal branch, none when the
\* simulation succeeded (with or without a figure), never more than one.
C9_TelemetryIffSimulationFailed ==
    \A c \in Calls :
        /\ Len(EventsOf(c)) <= 1
        /\ Len(EventsOf(c)) = 1 <=> SimulationFailed(c)

C9_Witness ==
    \E c, d \in Calls :
        /\ simulated_gas[c].tag = "Ok"
        /\ ~simulated_gas[c].some
        /\ pc[c] = "done"
        /\ EventsOf(c) = << >>
        /\ SimulationFailed(d)
        /\ Len(EventsOf(d)) = 1

\* C10 as stated: when the fee calculation step fails (the live price
\* cannot be fetched), the call fails and no (fee, gas) pair is returned.
C10_FeeFailurePropagates ==
    \A c \in Calls :
        (pc[c] = "done" /\ price_query[c].tag = "Err")
        => result[c].tag = "Err"

\* C10 amended: the fee calculation step has no failure path in
\* estimate_fee_with_tx: once the ceiling check passed, the call returns
\* Ok with the fee the calculator returned paired with the estimate, also
\* when the price lookup inside the calculator failed.
C10_FeeStepCannotFail ==
    \A c \in Calls :
        (pc[c] = "done" /\ price_query[c] # Unset)
        => /\ result[c].tag = "Ok"
           /\ result[c].val.fee = adjusted_fee[c]
           /\ result[c].val.gas = estimated_gas[c].val

C10_Witness ==
    \E c \in Calls :
        /\ pc[c] = "done"
        /\ price_query[c].tag = "Err"
        /\ result[c].tag = "Ok"

\* The two orders in which a complete call invokes its collaborators.
CallOrders ==
    { << "sign_tx", "send_tx_simulate", "gas_amount_to_fee" >>,
      << "sign_tx", "send_tx_simulate", "telemetry", "gas_amount_to_fee" >> }

IsPrefix(s, t) ==
    /\ Len(s) <= Len(t)
    /\ \A i \in 1 .. Len(s) : s[i] = t[i]

\* C11: within one call the collaborators are invoked in the order signer,
\* simulator, telemetry (if any), fee calculator, each at most once; the
\* simulator only after signing succeeded, telemetry only after the
\* simulation failed, the fee calculator only after the estimate resolved
\* and the ceiling check passed.
C11_SequentialAtMostOnce ==
    \A c \in Calls :
        /\ \E o \in CallOrders : IsPrefix(invoked[c], o)
        /\ Invoked(c, "send_tx_simulate") => signed_tx[c].tag = "Ok"
        /\ Invoked(c, "telemetry") => SimulationFailed(c)
        /\ Invoked(c, "gas_amount_to_fee")
             => /\ Resolved(c)
                /\ estimated_gas_amount[c] = Known(estimated_gas[c].val.amount)
                /\ estimated_gas[c].val.amount <= config.gas_config.max_gas

C11_Witness ==
    \E c \in Calls :
        /\ pc[c] = "done"
        /\ invoked[c] =
              << "sign_tx", "send_tx_simulate", "telemetry", "gas_amount_to_fee" >>
        /\ result[c].tag = "Ok"

\* C12: a call that met a collaborator error returns Ok only when that
\* error was a simulation error classified recoverable, and the returned
\* estimate is then the Default variant; a signing failure, a simulation
\* failure not classified recoverable and a ceiling violation always give
\* Err.
C12_OnlyRecoverableIsAbsorbed ==
    \A c \in Calls :
        pc[c] = "done"
        => /\ signed_tx[c].tag = "Err" => result[c].tag = "Err"
           /\ (SimulationFailed(c) /\ ~MatchesOneOfFour(simulated_gas[c].err))
                => result[c].tag = "Err"
           /\ (Resolved(c) /\ estimated_gas[c].val.amount > config.gas_config.max_gas)
                => result[c].tag = "Err"
           /\ (result[c].tag = "Ok" /\ (signed_tx[c].tag = "Err" \/ SimulationFailed(c)))
                => /\ signed_tx[c].tag = "Ok"
                   /\ SimulationFailed(c)
                   /\ MatchesOneOfFour(simulated_gas[c].err)
                   /\ result[c].val.gas.variant = "Default"

C12_Witness ==
    \E c, d \in Calls :
        /\ pc[c] = "done"
        /\ SimulationFailed(c)
        /\ result[c].tag = "Ok"
        /\ result[c].val.gas.variant = "Default"
        /\ pc[d] = "done"
        /\ SimulationFailed(d)
        /\ result[d].tag = "Err"

\* C13: when default_gas > max_gas, every call whose gas resolves to the
\* default fallback (no figure, or a recoverable failure) ends with the
\* ceiling-exceeded error carrying default_gas and max_gas, and no call
\* returns Ok with a Default estimate.
C13_MisconfiguredDefaultExceeds ==
    config.gas_config.default_gas > config.gas_config.max_gas
    => \A c \in Calls :
          /\ ( /\ simulated_gas[c] # Unset
               /\ \/ (simulated_gas[c].tag = "Ok" /\ ~simulated_gas[c].some)
                  \/ (SimulationFailed(c) /\ MatchesOneOfFour(simulated_gas[c].err)) )
             => /\ pc[c] \in {"ceiling_check", "done"}
                /\ pc[c] = "done" =>
                     result[c] = Err([detail |->
                         [kind |-> "TxSimulateGasEstimateExceeded",
                          chain_id |-> config.chain_id,
                          estimated |-> config.gas_config.default_gas,
                          max |-> config.gas_config.max_gas]])
          /\ result[c].tag = "Ok" => result[c].val.gas.variant # "Default"

C13_Witness ==
    \E c, d \in Calls :
        /\ config.gas_config.default_gas > config.gas_config.max_gas
        /\ pc[c] = "done"
        /\ simulated_gas[c].tag = "Ok"
        /\ ~simulated_gas[c].some
        /\ result[c].tag = "Err"
        /\ pc[d] = "done"
        /\ SimulationFailed(d)
        /\ MatchesOneOfFour(simulated_gas[d].err)
        /\ result[d].tag = "Err"

\* C16: a successful simulation falls back to Default only when the figure
\* is absent; a figure that is present and zero resolves to Simulated(0),
\* passes the ceiling check whatever max_gas is, and the fee is computed
\* from the amount 0.
C16_ZeroFigureIsSimulated ==
    \A c \in Calls :
        simulated_gas[c].tag = "Ok"
        => /\ estimated_gas[c].tag = "Ok"
           /\ estimated_gas[c].val.variant = "Default" <=> ~simulated_gas[c].some
           /\ (simulated_gas[c].some /\ simulated_gas[c].gas_used = 0)
                => /\ estimated_gas[c] = Ok([variant |-> "Simulated", amount |-> 0])
                   /\ pc[c] \in {"ceiling_check", "gas_amount_to_fee", "done"}
                   /\ pc[c] = "done"
                        => /\ result[c].tag = "Ok"
                           /\ result[c].val.gas = [variant |-> "Simulated", amount |-> 0]
                           /\ result[c].val.fee = adjusted_fee[c]
                           /\ result[c].val.fee.gas_limit = 0

C16_Witness ==
    \E c \in Calls :
        /\ simulated_gas[c].tag = "Ok"
        /\ simulated_gas[c].some
        /\ simulated_gas[c].gas_used = 0
        /\ config.gas_config.max_gas = 0
        /\ config.gas_config.default_gas > 0
        /\ pc[c] = "done"
        /\ result[c].tag = "Ok"

\* What a call running alone makes of the answers its collaborators gave:
\* the estimate, the telemetry events and the returned value, written out
\* case by case from the answers only.
AloneGas(c) ==
    IF simulated_gas[c].tag = "Ok" /\ simulated_gas[c].some
    THEN [variant |-> "Simulated", amount |-> simulated_gas[c].gas_used]
    ELSE [variant |-> "Default", amount |-> config.gas_config.default_gas]

AloneEvents(c) ==
    IF simulated_gas[c].tag = "Err"
    THEN LET d == simulated_gas[c].err.detail IN
         << [address |-> account(c).address,
             recoverable |-> (d.kind = "GrpcStatus" /\ d.matches # {}),
             text |-> IF d.kind = "GrpcStatus" THEN d.code ELSE d.kind] >>
    ELSE << >>

AloneResult(c) ==
    IF signed_tx[c].tag = "Err"
    THEN [tag |-> "Err", err |-> signed_tx[c].err]
    ELSE IF simulated_gas[c].tag = "Err" /\ ~MatchesOneOfFour(simulated_gas[c].err)
    THEN [tag |-> "Err", err |-> simulated_gas[c].err]
    ELSE IF AloneGas(c).amount > config.gas_config.max_gas
    THEN [tag |-> "Err", err |-> [detail |->
             [kind |-> "TxSimulateGasEstimateExceeded",
              chain_id |-> config.chain_id,
              estimated |-> AloneGas(c).amount,
              max |-> config.gas_config.max_gas]]]
    ELSE LET price == IF price_query[c].tag = "Ok" THEN price_query[c].price
                      ELSE config.gas_config.gas_price
         IN  [tag |-> "Ok", val |->
                [fee |-> [gas_limit |-> AloneGas(c).amount,
                          amount |-> AloneGas(c).amount * price],
                 gas |-> AloneGas(c)]]

\* C15: under every interleaving of the steps of the concurrent calls, the
\* telemetry events of a call and the value it returns are those it would
\* produce alone from the same collaborator answers.
C15_CallsDoNotInterfere ==
    \A c \in Calls :
        /\ simulated_gas[c] = Unset => EventsOf(c) = << >>
        /\ simulated_gas[c] # Unset => EventsOf(c) = AloneEvents(c)
        /\ pc[c] = "done" => result[c] = AloneResult(c)

C15_Witness ==
    \E c, d \in Calls :
        /\ c # d
        /\ Len(simulate_errors) = 2
        /\ simulate_errors[1].address = account(d).address
        /\ simulate_errors[2].address = account(c).address
        /\ pc[c] = "done"
        /\ result[c].tag = "Ok"
        /\ pc[d] = "gas_amount_to_fee"

\* The answers the signer, the simulator and the price lookup gave a call.
Answers(c) == << signed_tx[c], simulated_gas[c], price_query[c] >>

\* C14: the outcome of the telemetry emission has no influence on what a
\* call returns: two calls given the same answers by the signer, the
\* simulator and the fee calculator, one with the sink recording the event
\* and one with the sink failing, resolve the same estimate and return the
\* same value.
C14_TelemetryOutcomeIsIgnored ==
    \A c, d \in Calls :
        ( /\ telemetry_outcome[c] = "recorded"
          /\ telemetry_outcome[d] = "failed"
          /\ simulated_gas[c] = simulated_gas[d] )
        => /\ estimated_gas[c] = estimated_gas[d]
           /\ (pc[c] = "done" /\ pc[d] = "done" /\ Answers(c) = Answers(d))
                => result[c] = result[d]

C14_Witness ==
    \E c, d \in Calls :
        /\ telemetry_outcome[c] = "recorded"
        /\ telemetry_outcome[d] = "failed"
        /\ Answers(c) = Answers(d)
        /\ pc[c] = "done"
        /\ pc[d] = "done"
        /\ result[c].tag = "Ok"
        /\ result[d] = result[c]

\* C17: a call cancelled at one of its two awaits leaves nothing behind but
\* at most one telemetry event.  Cancelled while awaiting the simulation:
\* no telemetry event, the fee calculator never called.  Cancelled while
\* awaiting the fee: at most the one event of the failure branch, and no
\* value returned.  A cancelled call takes no further step.
C17_CancellationLeavesNoSideEffect ==
    \A c \in Calls :
        /\ cancelled_at[c] # "none" => pc[c] = "cancelled"
        /\ cancelled_at[c] = "send_tx_simulate"
             => /\ EventsOf(c) = << >>
                /\ ~Invoked(c, "telemetry")
                /\ ~Invoked(c, "gas_amount_to_fee")
                /\ simulated_gas[c] = Unset
                /\ adjusted_fee[c] = Unset
                /\ result[c] = Unset
        /\ cancelled_at[c] = "gas_amount_to_fee"
             => /\ Len(EventsOf(c)) <= 1
                /\ Len(EventsOf(c)) = 1
                     => (SimulationFailed(c) /\ EventsOf(c)[1].recoverable)
                /\ adjusted_fee[c] = Unset
                /\ result[c] = Unset

C17_Witness ==
    \E c, d \in Calls :
        /\ cancelled_at[c] = "send_tx_simulate"
        /\ cancelled_at[d] = "gas_amount_to_fee"
        /\ Len(EventsOf(d)) = 1
        /\ pc[c] = "cancelled"
        /\ pc[d] = "cancelled"

====
